---- MODULE Spec2Model ----
(***************************************************************************)
(* Model of vsl::VectorSkipList<T> (src/src/vsl.hpp): a skip list whose    *)
(* nodes are blocks of up to capacity_limit elements tracked by a bitmap.  *)
(*                                                                         *)
(* Keys.  A uint64_t key u is represented by the integer s congruent to u  *)
(* modulo 2^64 with the smallest absolute value, so 0, 1, 2 ... stand for  *)
(* themselves and -1, -2 ... stand for 2^64-1, 2^64-2 ...  All keys of the *)
(* model lie within 2^20 of 0 modulo 2^64.  On such representatives the    *)
(* wrapping subtraction of uint64_t is the plain integer subtraction and   *)
(* the unsigned comparison is ULe/ULt below.                               *)
(*                                                                         *)
(* PRNG.  Xoroshiro64StarStar::next() is deterministic for one seed; the   *)
(* model draws each of its outputs nondeterministically, which covers      *)
(* every seed.                                                             *)
(***************************************************************************)
EXTENDS Integers, FiniteSets, Sequences, TLC

capacity_init == 4
capacity_limit == 64
minLevel == 4

\* the invalid value handed to the constructor (test2 uses -1)
invalid == 0 - 1

\* number of distinct valid payload values of the model
MaxValue == 1

\* number of blocks of the filled container of SpecTall
FilledBlocks == 16

\* number of blocks of the container of SpecDrain before it is drained
DrainBlocks == 9

\* numbers of keys of the ascending and of the sparse insertion loop of SpecLoad
AscendKeys == 130
SparseKeys == 6

\* number of blocks of the filled container of SpecWide
WideBlocks == 34

UINT64_MAX == 0 - 1

Values == {invalid} \cup (1..MaxValue)

\* the keys the operations are called with
Keys == {0, capacity_limit - 1, UINT64_MAX}

\* content of memory that realloc returned and nobody wrote yet
GARBAGE == 0 - 99

\* node addresses: nullptr, &sentryHead, &sentryTail, heap blocks from 3 on
NIL == 0
sentryHead == 1
sentryTail == 2

VARIABLES heap, width, level, ref, last

vars == <<heap, width, level, ref, last>>

--------------------------------------------------------------------------
\* the comparison of two keys as signed 64-bit integers
ULe_signed(a, b) == a <= b

\* unsigned comparison of two uint64_t keys
ULe(a, b) == IF (a >= 0) = (b >= 0) THEN a <= b ELSE a >= 0

\* a - b modulo 2^64, as a representative
USub(a, b) == a - b

\* isIndexValid for blocks of half the capacity
isIndexValid_half(d) == d >= 0 /\ d < capacity_limit \div 2

\* unsigned 'd < capacity_limit' for a difference d of two keys
isIndexValid(d) == d >= 0 /\ d < capacity_limit

Pow2(n) == 2 ^ n

--------------------------------------------------------------------------
\* bits.hpp
bits_get(bitMap, index) == index \in bitMap
bits_set_one(bitMap, index) == bitMap \cup {index}
bits_set_zero(bitMap, index) == bitMap \ {index}

--------------------------------------------------------------------------
\* SkipListNode

SkipListNode(baseIndex, lvl) ==
  [ nodes            |-> [i \in 0 .. (2 * (lvl + 1) - 1) |-> NIL],
    elements         |-> [i \in {} |-> GARBAGE],
    baseIndex        |-> baseIndex,
    bitMap           |-> {},
    node_capacity    |-> lvl + 1,
    level            |-> lvl,
    element_capacity |-> 0 ]

\* The element buffer holds element_capacity slots; the record keeps the slots
\* that were written, every other slot below element_capacity is GARBAGE.
Store(elements, index, value) ==
  [i \in DOMAIN elements \cup {index} |-> IF i = index THEN value ELSE elements[i]]
Load(elements, index) ==
  IF index \in DOMAIN elements THEN elements[index] ELSE GARBAGE

isEmpty(n) == n.bitMap = {}

\* hasElement without the test of the bitmap
hasElement_capacity_only(n, index) == index < n.element_capacity

hasElement(n, index) == (index < n.element_capacity) /\ bits_get(n.bitMap, index)

\* the growth of setElement without 'while (index >= newCapacity)'
GrowCapacity_once(newCapacity, index) == newCapacity

RECURSIVE GrowCapacity(_, _)
GrowCapacity(newCapacity, index) ==
  IF index >= newCapacity THEN GrowCapacity((newCapacity * 2) % 256, index)
  ELSE newCapacity

\* setElement that stores the new bit over the bitmap instead of or-ing it in
setElement_resets_bitMap(n, index, value) ==
  IF index >= capacity_limit THEN n
  ELSE LET grow == index >= n.element_capacity
           newCapacity ==
             GrowCapacity(IF n.element_capacity # 0
                          THEN (n.element_capacity * 2) % 256
                          ELSE capacity_init, index)
           cap == IF grow THEN newCapacity ELSE n.element_capacity
       IN [n EXCEPT !.elements = Store(n.elements, index, value),
                    !.element_capacity = cap,
                    !.bitMap = {index}]

\* setElement without the growth of the element buffer
setElement_no_grow(n, index, value) ==
  IF index >= capacity_limit THEN n
  ELSE [n EXCEPT !.elements = Store(n.elements, index, value),
                 !.bitMap = bits_set_one(n.bitMap, index)]

setElement(n, index, value) ==
  IF index >= capacity_limit THEN n
  ELSE LET grow == index >= n.element_capacity
           newCapacity ==
             GrowCapacity(IF n.element_capacity # 0
                          THEN (n.element_capacity * 2) % 256
                          ELSE capacity_init, index)
           cap == IF grow THEN newCapacity ELSE n.element_capacity
       IN [n EXCEPT !.elements = Store(n.elements, index, value),
                    !.element_capacity = cap,
                    !.bitMap = bits_set_one(n.bitMap, index)]

\* deleteElement that leaves the bit set
deleteElement_keep(n, index) == n

deleteElement(n, index) ==
  IF index >= n.element_capacity THEN n
  ELSE [n EXCEPT !.bitMap = bits_set_zero(n.bitMap, index)]

\* SkipListNode::increaseLevel without the fill_n of the two slots of the new
\* level
Node_increaseLevel_no_fill(n) ==
  LET grow == (n.level + 1) >= n.node_capacity
      newCapacity == (n.node_capacity * 2) % 256
      cap == IF grow THEN newCapacity ELSE n.node_capacity
  IN [n EXCEPT
        !.nodes = [i \in 0 .. (2 * cap - 1) |->
                     IF i < 2 * n.node_capacity THEN n.nodes[i] ELSE GARBAGE],
        !.node_capacity = cap,
        !.level = n.level + 1]

Node_increaseLevel(n) ==
  LET grow == (n.level + 1) >= n.node_capacity
      newCapacity == (n.node_capacity * 2) % 256
      cap == IF grow THEN newCapacity ELSE n.node_capacity
      lvl == n.level + 1
  IN [n EXCEPT
        !.nodes = [i \in 0 .. (2 * cap - 1) |->
                     IF i \in {2 * lvl, 2 * lvl + 1} THEN NIL
                     ELSE IF i < 2 * n.node_capacity THEN n.nodes[i]
                     ELSE GARBAGE],
        !.node_capacity = cap,
        !.level = lvl]

Node_decreaseLevel(n) == [n EXCEPT !.level = n.level - 1]

getLeftNode(h, n, lvl) == h[n].nodes[2 * lvl + 1]
getRightNode(h, n, lvl) == h[n].nodes[2 * lvl]
setLeftNode(h, n, lvl, m) == [h EXCEPT ![n].nodes[2 * lvl + 1] = m]
setRightNode(h, n, lvl, m) == [h EXCEPT ![n].nodes[2 * lvl] = m]

--------------------------------------------------------------------------
\* VectorSkipList; c is the container [heap, width, level]

\* The address operator new returns: any free one.  Addresses are compared
\* with the sentinels' only, so the choice is not observable; the model's
\* allocator numbers a block after its base index when that address is free
\* and takes the lowest free address otherwise.
NewAddress(h, index) ==
  LET pref == IF index >= 0 THEN 3 + 2 * index ELSE 2 - 2 * index
  IN IF pref \notin DOMAIN h THEN pref
     ELSE CHOOSE a \in 3 .. (3 + Cardinality(DOMAIN h)) :
            a \notin DOMAIN h /\ \A b \in 3 .. (a - 1) : b \in DOMAIN h

RECURSIVE SkipLower(_, _, _)
SkipLower(h, node, lvl) ==
  IF h[node].level < lvl THEN SkipLower(h, getRightNode(h, node, lvl), lvl)
  ELSE node

\* the promotion loop without 'left = node'
RECURSIVE Promote_left_stuck(_, _, _, _, _, _)
Promote_left_stuck(h, node, left, promoted, lvl, coins) ==
  IF node = sentryTail THEN [heap |-> h, left |-> left]
  ELSE IF (node \in coins) \/ ~promoted
       THEN LET h1 == [h EXCEPT ![node] = Node_increaseLevel(h[node])]
                h2 == setLeftNode(h1, node, lvl, left)
                h3 == setRightNode(h2, left, lvl, node)
            IN Promote_left_stuck(h3, getRightNode(h3, node, lvl - 1), left, TRUE,
                                  lvl, coins)
       ELSE Promote_left_stuck(h, getRightNode(h, node, lvl - 1), left, promoted,
                               lvl, coins)

\* the promotion loop of increaseLevel; coins is the set of nodes for which
\* rng.next() & 1 came out 1
RECURSIVE Promote(_, _, _, _, _, _)
Promote(h, node, left, promoted, lvl, coins) ==
  IF node = sentryTail THEN [heap |-> h, left |-> left]
  ELSE IF (node \in coins) \/ ~promoted
       THEN LET h1 == [h EXCEPT ![node] = Node_increaseLevel(h[node])]
                h2 == setLeftNode(h1, node, lvl, left)
                h3 == setRightNode(h2, left, lvl, node)
            IN Promote(h3, getRightNode(h3, node, lvl - 1), node, TRUE, lvl, coins)
       ELSE Promote(h, getRightNode(h, node, lvl - 1), left, promoted, lvl, coins)

increaseLevel(c, coins) ==
  LET h1 == [c.heap EXCEPT ![sentryHead] = Node_increaseLevel(c.heap[sentryHead]),
                           ![sentryTail] = Node_increaseLevel(c.heap[sentryTail])]
      lvl == c.level + 1
      first == SkipLower(h1, getRightNode(h1, sentryHead, lvl - 1), lvl - 1)
      p == Promote(h1, first, sentryHead, FALSE, lvl, coins)
      h2 == setRightNode(p.heap, p.left, lvl, sentryTail)
      h3 == setLeftNode(h2, sentryTail, lvl, p.left)
  IN [heap |-> h3, width |-> c.width, level |-> lvl]

\* the demotion loop of decreaseLevel stopped after the head sentinel
DemoteWalk_head_only(h, node, lvl) ==
  [h EXCEPT ![node] = Node_decreaseLevel(h[node])]

RECURSIVE DemoteWalk(_, _, _)
DemoteWalk(h, node, lvl) ==
  IF node = NIL THEN h
  ELSE LET right == getRightNode(h, node, lvl)
       IN DemoteWalk([h EXCEPT ![node] = Node_decreaseLevel(h[node])], right, lvl)

\* decreaseLevel that walks the level below the top level
decreaseLevel_lower_chain(c) ==
  [heap |-> DemoteWalk(c.heap, sentryHead, c.level - 1),
   width |-> c.width, level |-> c.level - 1]

\* decreaseLevel without 'this->level--'
decreaseLevel_keeps_height(c) ==
  [heap |-> DemoteWalk(c.heap, sentryHead, c.level),
   width |-> c.width, level |-> c.level]

\* decreaseLevel whose walk starts at the first block of the top level
decreaseLevel_skips_head(c) ==
  [heap |-> DemoteWalk(c.heap, getRightNode(c.heap, sentryHead, c.level), c.level),
   width |-> c.width, level |-> c.level - 1]

decreaseLevel(c) ==
  [heap |-> DemoteWalk(c.heap, sentryHead, c.level),
   width |-> c.width, level |-> c.level - 1]

\* count is bits::ctz64(rng.next())
getRandomLevel(c, count) == IF count <= c.level THEN count ELSE c.level

\* the descent of findLeftNode with 'next->baseIndex < index'
RECURSIVE findLeftWalk_strict(_, _, _, _)
findLeftWalk_strict(c, node, curLevel, index) ==
  IF curLevel < 0 THEN node
  ELSE LET next == getRightNode(c.heap, node, curLevel)
       IN IF next # sentryTail /\ c.heap[next].baseIndex # index
                               /\ ULe(c.heap[next].baseIndex, index)
          THEN findLeftWalk_strict(c, next, curLevel, index)
          ELSE findLeftWalk_strict(c, node, curLevel - 1, index)

RECURSIVE findLeftWalk(_, _, _, _)
findLeftWalk(c, node, curLevel, index) ==
  IF curLevel < 0 THEN node
  ELSE LET next == getRightNode(c.heap, node, curLevel)
       IN IF next # sentryTail /\ ULe(c.heap[next].baseIndex, index)
          THEN findLeftWalk(c, next, curLevel, index)
          ELSE findLeftWalk(c, node, curLevel - 1, index)

findLeftNode(c, index) == findLeftWalk(c, sentryHead, c.level, index)

RECURSIVE ClimbLeft(_, _, _)
ClimbLeft(h, left, i) ==
  IF h[left].level < i THEN ClimbLeft(h, getLeftNode(h, left, i - 1), i) ELSE left

RECURSIVE ClimbRight(_, _, _)
ClimbRight(h, right, i) ==
  IF h[right].level < i THEN ClimbRight(h, getRightNode(h, right, i - 1), i) ELSE right

\* the connect loop without the two climbs 'while (left->level < i)' and
\* 'while (right->level < i)'
RECURSIVE Connect_no_climb(_, _, _, _, _, _)
Connect_no_climb(h, newNode, left, right, i, lvl) ==
  IF i > lvl THEN h
  ELSE LET h1 == setLeftNode(h, newNode, i, left)
           h2 == setRightNode(h1, left, i, newNode)
           h3 == setRightNode(h2, newNode, i, right)
           h4 == setLeftNode(h3, right, i, newNode)
       IN Connect_no_climb(h4, newNode, left, right, i + 1, lvl)

\* the connect loop of insertNode, from level i up to level lvl
RECURSIVE Connect(_, _, _, _, _, _)
Connect(h, newNode, left, right, i, lvl) ==
  IF i > lvl THEN h
  ELSE LET l == ClimbLeft(h, left, i)
           h1 == setLeftNode(h, newNode, i, l)
           h2 == setRightNode(h1, l, i, newNode)
           r == ClimbRight(h2, right, i)
           h3 == setRightNode(h2, newNode, i, r)
           h4 == setLeftNode(h3, r, i, newNode)
       IN Connect(h4, newNode, l, r, i + 1, lvl)

\* insertNode that rounds the base of the new block down to a multiple of
\* capacity_limit
insertNode_aligned(c, leftNode, index, value, count, coins) ==
  LET lvl == getRandomLevel(c, count)
      newNode == NewAddress(c.heap, index)
      h0 == [a \in DOMAIN c.heap \cup {newNode} |->
               IF a = newNode
               THEN SkipListNode(index - (index % capacity_limit), lvl)
               ELSE c.heap[a]]
      h1 == Connect(h0, newNode, leftNode, getRightNode(c.heap, leftNode, 0), 0, lvl)
      h2 == [h1 EXCEPT ![newNode] = setElement(h1[newNode], 0, value)]
      c1 == [heap |-> h2, width |-> c.width + 1, level |-> c.level]
      c2 == IF c1.width > Pow2(c1.level) THEN increaseLevel(c1, coins) ELSE c1
  IN [c |-> c2, node |-> newNode]

\* insertNode that compares the width with the height, not with 2^height
insertNode_linear_growth(c, leftNode, index, value, count, coins) ==
  LET lvl == getRandomLevel(c, count)
      newNode == NewAddress(c.heap, index)
      h0 == [a \in DOMAIN c.heap \cup {newNode} |->
               IF a = newNode THEN SkipListNode(index, lvl) ELSE c.heap[a]]
      h1 == Connect(h0, newNode, leftNode, getRightNode(c.heap, leftNode, 0), 0, lvl)
      h2 == [h1 EXCEPT ![newNode] = setElement(h1[newNode], 0, value)]
      c1 == [heap |-> h2, width |-> c.width + 1, level |-> c.level]
      c2 == IF c1.width > c1.level THEN increaseLevel(c1, coins) ELSE c1
  IN [c |-> c2, node |-> newNode]

\* insertNode that grows when width >= 2^height
insertNode_grows_at_equal(c, leftNode, index, value, count, coins) ==
  LET lvl == getRandomLevel(c, count)
      newNode == NewAddress(c.heap, index)
      h0 == [a \in DOMAIN c.heap \cup {newNode} |->
               IF a = newNode THEN SkipListNode(index, lvl) ELSE c.heap[a]]
      h1 == Connect(h0, newNode, leftNode, getRightNode(c.heap, leftNode, 0), 0, lvl)
      h2 == [h1 EXCEPT ![newNode] = setElement(h1[newNode], 0, value)]
      c1 == [heap |-> h2, width |-> c.width + 1, level |-> c.level]
      c2 == IF c1.width >= Pow2(c1.level) THEN increaseLevel(c1, coins) ELSE c1
  IN [c |-> c2, node |-> newNode]

\* insertNode without the setElement of the first value
insertNode_unset(c, leftNode, index, value, count, coins) ==
  LET lvl == getRandomLevel(c, count)
      newNode == NewAddress(c.heap, index)
      h0 == [a \in DOMAIN c.heap \cup {newNode} |->
               IF a = newNode THEN SkipListNode(index, lvl) ELSE c.heap[a]]
      h1 == Connect(h0, newNode, leftNode, getRightNode(c.heap, leftNode, 0), 0, lvl)
      c1 == [heap |-> h1, width |-> c.width + 1, level |-> c.level]
      c2 == IF c1.width > Pow2(c1.level) THEN increaseLevel(c1, coins) ELSE c1
  IN [c |-> c2, node |-> newNode]

\* insertNode whose growth test reads the local 'level' (the level drawn for
\* the new node) in place of this->level
insertNode_shadowed_level(c, leftNode, index, value, count, coins) ==
  LET lvl == getRandomLevel(c, count)
      newNode == NewAddress(c.heap, index)
      h0 == [a \in DOMAIN c.heap \cup {newNode} |->
               IF a = newNode THEN SkipListNode(index, lvl) ELSE c.heap[a]]
      h1 == Connect(h0, newNode, leftNode, getRightNode(c.heap, leftNode, 0), 0, lvl)
      h2 == [h1 EXCEPT ![newNode] = setElement(h1[newNode], 0, value)]
      c1 == [heap |-> h2, width |-> c.width + 1, level |-> c.level]
      c2 == IF c1.width > Pow2(lvl) THEN increaseLevel(c1, coins) ELSE c1
  IN [c |-> c2, node |-> newNode]

insertNode(c, leftNode, index, value, count, coins) ==
  LET lvl == getRandomLevel(c, count)
      newNode == NewAddress(c.heap, index)
      h0 == [a \in DOMAIN c.heap \cup {newNode} |->
               IF a = newNode THEN SkipListNode(index, lvl) ELSE c.heap[a]]
      h1 == Connect(h0, newNode, leftNode, getRightNode(c.heap, leftNode, 0), 0, lvl)
      h2 == [h1 EXCEPT ![newNode] = setElement(h1[newNode], 0, value)]
      c1 == [heap |-> h2, width |-> c.width + 1, level |-> c.level]
      c2 == IF c1.width > Pow2(c1.level) THEN increaseLevel(c1, coins) ELSE c1
  IN [c |-> c2, node |-> newNode]

\* the unlink loop without right->setLeftNode(i, left)
RECURSIVE Unlink_one_way(_, _, _)
Unlink_one_way(h, node, i) ==
  IF i > h[node].level THEN h
  ELSE LET left == getLeftNode(h, node, i)
           right == getRightNode(h, node, i)
       IN Unlink_one_way(setRightNode(h, left, i, right), node, i + 1)

RECURSIVE Unlink(_, _, _)
Unlink(h, node, i) ==
  IF i > h[node].level THEN h
  ELSE LET left == getLeftNode(h, node, i)
           right == getRightNode(h, node, i)
           h1 == setRightNode(h, left, i, right)
           h2 == setLeftNode(h1, right, i, left)
       IN Unlink(h2, node, i + 1)

\* removeNode without the call of decreaseLevel
removeNode_never_shrinks(c, node) ==
  LET h1 == Unlink(c.heap, node, 0)
      h2 == [a \in DOMAIN h1 \ {node} |-> h1[a]]
  IN [heap |-> h2, width |-> c.width - 1, level |-> c.level]

\* removeNode that compares with '<' where the source has '<=' (the source
\* returns early on '>')
removeNode_shrinks_late(c, node) ==
  LET h1 == Unlink(c.heap, node, 0)
      h2 == [a \in DOMAIN h1 \ {node} |-> h1[a]]
      c1 == [heap |-> h2, width |-> c.width - 1, level |-> c.level]
  IN IF c1.level < minLevel \/ c1.width >= (Pow2(c1.level) - Pow2(minLevel))
     THEN c1
     ELSE decreaseLevel(c1)

\* removeNode without '--this->width'
removeNode_keeps_width(c, node) ==
  LET h1 == Unlink(c.heap, node, 0)
      h2 == [a \in DOMAIN h1 \ {node} |-> h1[a]]
      c1 == [heap |-> h2, width |-> c.width, level |-> c.level]
  IN IF c1.level < minLevel \/ c1.width > (Pow2(c1.level) - Pow2(minLevel))
     THEN c1
     ELSE decreaseLevel(c1)

removeNode(c, node) ==
  LET h1 == Unlink(c.heap, node, 0)
      h2 == [a \in DOMAIN h1 \ {node} |-> h1[a]]
      c1 == [heap |-> h2, width |-> c.width - 1, level |-> c.level]
  IN IF c1.level < minLevel \/ c1.width > (Pow2(c1.level) - Pow2(minLevel))
     THEN c1
     ELSE decreaseLevel(c1)

\* the coverage test without isIndexValid(index - node->baseIndex)
Covers_no_range(c, node, index) ==
  /\ node # sentryHead
  /\ ULe(c.heap[node].baseIndex, index)

\* the test the four public operations apply to the node findLeftNode returns
Covers(c, node, index) ==
  /\ node # sentryHead
  /\ ULe(c.heap[node].baseIndex, index)
  /\ isIndexValid(USub(index, c.heap[node].baseIndex))

has(c, index) ==
  IF c.width = 0 THEN FALSE
  ELSE LET node == findLeftNode(c, index)
       IN IF Covers(c, node, index)
          THEN hasElement(c.heap[node], USub(index, c.heap[node].baseIndex))
          ELSE FALSE

\* erase without the hasElement test: every covered key counts as erased
erase_unchecked(c, index) ==
  IF c.width = 0 THEN [c |-> c, ret |-> FALSE]
  ELSE LET node == findLeftNode(c, index)
           offset == USub(index, c.heap[node].baseIndex) % 256
       IN IF Covers(c, node, index)
          THEN LET c1 == [c EXCEPT !.heap[node] = deleteElement(c.heap[node], offset)]
               IN [c |-> IF isEmpty(c1.heap[node]) THEN removeNode(c1, node) ELSE c1,
                   ret |-> TRUE]
          ELSE [c |-> c, ret |-> FALSE]

\* erase that leaves a block whose last bit it cleared in the list
erase_keeps_block(c, index) ==
  IF c.width = 0 THEN [c |-> c, ret |-> FALSE]
  ELSE LET node == findLeftNode(c, index)
           offset == USub(index, c.heap[node].baseIndex) % 256
       IN IF Covers(c, node, index) /\ hasElement(c.heap[node], offset)
          THEN [c |-> [c EXCEPT !.heap[node] = deleteElement(c.heap[node], offset)],
                ret |-> TRUE]
          ELSE [c |-> c, ret |-> FALSE]

erase(c, index) ==
  IF c.width = 0 THEN [c |-> c, ret |-> FALSE]
  ELSE LET node == findLeftNode(c, index)
           offset == USub(index, c.heap[node].baseIndex) % 256
       IN IF Covers(c, node, index) /\ hasElement(c.heap[node], offset)
          THEN LET c1 == [c EXCEPT !.heap[node] = deleteElement(c.heap[node], offset)]
               IN [c |-> IF isEmpty(c1.heap[node]) THEN removeNode(c1, node) ELSE c1,
                   ret |-> TRUE]
          ELSE [c |-> c, ret |-> FALSE]

\* operator[] that returns the slot of a covered key without setting it
IndexMut_no_set(c, index, count, coins) ==
  LET node == findLeftNode(c, index)
  IN IF Covers(c, node, index)
     THEN [c |-> c, node |-> node,
           offset |-> USub(index, c.heap[node].baseIndex) % 256]
     ELSE LET r == insertNode(c, node, index, invalid, count, coins)
          IN [c |-> r.c, node |-> r.node, offset |-> 0]

\* operator[] without the test of the block findLeftNode returned: every
\* call splices a block
IndexMut_always_splices(c, index, count, coins) ==
  LET node == findLeftNode(c, index)
      r == insertNode(c, node, index, invalid, count, coins)
  IN [c |-> r.c, node |-> r.node, offset |-> 0]

\* T& operator[](index): the container afterwards and the slot referred to
IndexMut(c, index, count, coins) ==
  LET node == findLeftNode(c, index)
  IN IF Covers(c, node, index)
     THEN LET offset == USub(index, c.heap[node].baseIndex) % 256
          IN [c |-> IF ~hasElement(c.heap[node], offset)
                    THEN [c EXCEPT !.heap[node] = setElement(c.heap[node], offset, invalid)]
                    ELSE c,
              node |-> node, offset |-> offset]
     ELSE LET r == insertNode(c, node, index, invalid, count, coins)
          IN [c |-> r.c, node |-> r.node, offset |-> 0]

\* operator[](index) = value: the write through the reference returned
Assigned(c, index, value, count, coins) ==
  LET r == IndexMut(c, index, count, coins)
  IN [r.c EXCEPT !.heap[r.node].elements = Store(@, r.offset, value)]

\* the read-only operator[] without the hasElement test
IndexConst_stale(c, index) ==
  LET node == findLeftNode(c, index)
  IN IF Covers(c, node, index)
     THEN Load(c.heap[node].elements, USub(index, c.heap[node].baseIndex) % 256)
     ELSE invalid

\* const T& operator[](index) const
IndexConst(c, index) ==
  LET node == findLeftNode(c, index)
  IN IF Covers(c, node, index)
        /\ hasElement(c.heap[node], USub(index, c.heap[node].baseIndex) % 256)
     THEN Load(c.heap[node].elements, USub(index, c.heap[node].baseIndex) % 256)
     ELSE invalid

--------------------------------------------------------------------------
\* The earlier revision of the container (namespace VSL): blocks of 32
\* elements, setElement(index, value) and getElement(index, value) in place of
\* operator[], has and erase.  Its descent, its connect loop and its
\* VectorSkipList::increaseLevel are, line for line, those modelled above as
\* findLeftWalk, Connect and increaseLevel.
VSL_capacity_limit == 32

\* 'static bool isIndexValid(const uint8_t index)': the difference of two
\* keys is cut to its low 8 bits on the call
VSL_isIndexValid(d) == (d % 256) < VSL_capacity_limit

\* The outcomes of 'this->elements[index] = value' when index lies outside
\* the buffer just reallocated (undefined behaviour): the store falls into
\* memory that is not the block's and leaves the buffer as it is, or the
\* heap is damaged and every slot of the buffer is indeterminate.
StrayOutcomes == {"outside", "damaged"}

\* SkipListNode::setElement of the earlier revision: one doubling per call
VSL_SkipListNode_setElement(n, index, value, stray) ==
  IF index > VSL_capacity_limit THEN n
  ELSE LET grow == index >= n.element_capacity
           doubled == IF n.element_capacity # 0
                      THEN n.element_capacity * 2 ELSE capacity_init
           newCapacity == IF ~grow THEN n.element_capacity
                          ELSE IF doubled < VSL_capacity_limit THEN doubled
                          ELSE VSL_capacity_limit
           filled == IF ~grow THEN n.elements
                     ELSE [i \in DOMAIN n.elements
                                   \cup (n.element_capacity .. (2 * n.element_capacity - 1)) |->
                             IF i >= n.element_capacity THEN 0 ELSE n.elements[i]]
           stored == IF index < newCapacity THEN Store(filled, index, value)
                     ELSE IF stray = "outside" THEN filled
                     ELSE [i \in DOMAIN filled |-> GARBAGE]
       IN [n EXCEPT !.elements = stored,
                    !.element_capacity = newCapacity,
                    !.bitMap = n.bitMap \cup {index}]

\* SkipListNode::getElement(index, value): value is an in-out parameter
VSL_SkipListNode_getElement(n, index, value) ==
  IF index >= n.element_capacity THEN value
  ELSE IF index \in n.bitMap THEN Load(n.elements, index) ELSE value

VSL_SkipListNode_deleteElement(n, index) ==
  IF index > n.element_capacity THEN n
  ELSE [n EXCEPT !.bitMap = n.bitMap \ {index}]

\* SkipListNode::decreaseLevel of the earlier revision: fill_n runs after
\* --level
VSL_SkipListNode_decreaseLevel(n) ==
  [n EXCEPT !.level = n.level - 1,
            !.nodes = [i \in DOMAIN n.nodes |->
                         IF i \in {2 * (n.level - 1), 2 * (n.level - 1) + 1}
                         THEN NIL ELSE n.nodes[i]]]

RECURSIVE VSL_DemoteWalk(_, _, _)
VSL_DemoteWalk(h, node, lvl) ==
  IF node = NIL THEN h
  ELSE LET right == getRightNode(h, node, lvl)
       IN VSL_DemoteWalk([h EXCEPT ![node] = VSL_SkipListNode_decreaseLevel(h[node])],
                         right, lvl)

VSL_decreaseLevel(c) ==
  [heap |-> VSL_DemoteWalk(c.heap, sentryHead, c.level),
   width |-> c.width, level |-> c.level - 1]

\* VectorSkipList::getElement(index, value): the value left in 'value'
VSL_getElement(c, index) ==
  IF c.width > 0
  THEN LET node == findLeftNode(c, index)
       IN IF node # sentryHead /\ ULe(c.heap[node].baseIndex, index)
          THEN VSL_SkipListNode_getElement(c.heap[node],
                 USub(index, c.heap[node].baseIndex) % 256, invalid)
          ELSE invalid
  ELSE invalid

\* VectorSkipList::setElement(index, value); count and coins are the draws of
\* the generator, stray the outcome of a store outside the buffer
VSL_setElement(c, index, value, count, coins, stray) ==
  LET node == IF c.width > 0 THEN findLeftNode(c, index) ELSE sentryHead
      offset == USub(index, c.heap[node].baseIndex) % 256
  IN IF /\ c.width > 0
        /\ node # sentryHead
        /\ ULe(c.heap[node].baseIndex, index)
        /\ VSL_isIndexValid(USub(index, c.heap[node].baseIndex))
     THEN IF value # invalid
          THEN [c EXCEPT !.heap[node] =
                  VSL_SkipListNode_setElement(c.heap[node], offset, value, stray)]
          ELSE LET c1 == [c EXCEPT !.heap[node] =
                            VSL_SkipListNode_deleteElement(c.heap[node], offset)]
               IN IF ~isEmpty(c1.heap[node]) THEN c1
                  ELSE LET h1 == Unlink(c1.heap, node, 0)
                           h2 == [a \in DOMAIN h1 \ {node} |-> h1[a]]
                           c2 == [heap |-> h2, width |-> c.width - 1, level |-> c.level]
                       IN IF c2.width = 0 \/ c2.width > Pow2(c2.level)
                          THEN c2
                          ELSE VSL_decreaseLevel(c2)
     ELSE IF value = invalid THEN c
     ELSE LET lvl == IF count <= c.level THEN count ELSE c.level
              newNode == NewAddress(c.heap, index)
              h0 == [a \in DOMAIN c.heap \cup {newNode} |->
                       IF a = newNode THEN SkipListNode(index, lvl) ELSE c.heap[a]]
              h1 == Connect(h0, newNode, node, getRightNode(c.heap, node, 0), 0, lvl)
              h2 == [h1 EXCEPT ![newNode] =
                       VSL_SkipListNode_setElement(h1[newNode], 0, value, stray)]
              c1 == [heap |-> h2, width |-> c.width + 1, level |-> c.level]
          IN IF c1.width <= Pow2(c1.level) THEN c1 ELSE increaseLevel(c1, coins)

--------------------------------------------------------------------------
\* the container as it stands
C == [heap |-> heap, width |-> width, level |-> level]

\* The outputs of the PRNG that operator[](index) consumes on c.  It draws
\* only when it splices a block: one output for getRandomLevel, whose count of
\* trailing zeros is either at most c.level or clamped to it (64 stands for
\* every larger count), and, when the splice raises the height, one output
\* per node of the old top level (the new node may be one of them).
Splices(c, index) == ~Covers(c, findLeftNode(c, index), index)
Counts(c, index) == IF Splices(c, index) THEN (0 .. c.level) \cup {64} ELSE {0}
Coins(c, index) ==
  IF Splices(c, index) /\ c.width + 1 > Pow2(c.level)
  THEN SUBSET ({a \in DOMAIN c.heap \ {sentryHead, sentryTail} :
                  c.heap[a].level = c.level} \cup {NewAddress(c.heap, index)})
  ELSE {{}}

\* VectorSkipList(invalid): two sentinels of level 0 linked to each other
Init ==
  /\ heap = [a \in {sentryHead, sentryTail} |->
               IF a = sentryHead
               THEN [SkipListNode(0, 0) EXCEPT !.nodes[0] = sentryTail]
               ELSE [SkipListNode(0, 0) EXCEPT !.nodes[1] = sentryHead]]
  /\ width = 0
  /\ level = 0
  /\ ref = [k \in {} |-> invalid]
  /\ last = [op |-> "new", index |-> 0, ret |-> invalid]

Put(f, k, v) == [x \in DOMAIN f \cup {k} |-> IF x = k THEN v ELSE f[x]]
Drop(f, k) == [x \in DOMAIN f \ {k} |-> f[x]]

\* skiplist[index] = value
Assign(index, value) ==
  \E count \in Counts(C, index), coins \in Coins(C, index) :
    \E c1 \in {Assigned(C, index, value, count, coins)} :
       /\ heap' = c1.heap
       /\ width' = c1.width
       /\ level' = c1.level
       /\ ref' = Put(ref, index, value)
       /\ last' = [op |-> "assign", index |-> index, ret |-> value]

\* value = skiplist[index] on a non-const container
Index(index) ==
  \E count \in Counts(C, index), coins \in Coins(C, index) :
    \E r \in {IndexMut(C, index, count, coins)} :
       /\ heap' = r.c.heap
       /\ width' = r.c.width
       /\ level' = r.c.level
       /\ ref' = IF index \in DOMAIN ref THEN ref ELSE Put(ref, index, invalid)
       /\ last' = [op |-> "index", index |-> index,
                   ret |-> Load(r.c.heap[r.node].elements, r.offset)]

\* skiplist.erase(index)
Erase(index) ==
  \E r \in {erase(C, index)} :
     /\ heap' = r.c.heap
     /\ width' = r.c.width
     /\ level' = r.c.level
     /\ ref' = Drop(ref, index)
     /\ last' = [op |-> "erase", index |-> index, ret |-> r.ret]

\* skiplist.has(index)
Has(index) ==
  /\ last' = [op |-> "has", index |-> index, ret |-> has(C, index)]
  /\ UNCHANGED <<heap, width, level, ref>>

\* value = skiplist[index] on a const container
Read(index) ==
  /\ last' = [op |-> "read", index |-> index,
              ret |-> IndexConst(C, index)]
  /\ UNCHANGED <<heap, width, level, ref>>

Next ==
  \/ \E index \in Keys, value \in Values : Assign(index, value)
  \/ \E index \in Keys : Index(index)
  \/ \E index \in Keys : Erase(index)
  \/ \E index \in Keys : Has(index)
  \/ \E index \in Keys : Read(index)

Spec == Init /\ [][Next]_vars

\* A container that has grown to height minLevel: FilledBlocks keys one block
\* apart are assigned in ascending order, as the insertion loops of the tests
\* do.  The n-th splice draws a PRNG output with as many trailing zeros as n
\* has, and every coin of a growth is 0.
RECURSIVE TrailingZeros(_)
TrailingZeros(n) == IF n % 2 = 1 THEN 0 ELSE 1 + TrailingZeros(n \div 2)

RECURSIVE Filled(_)
Filled(n) ==
  IF n = 0
  THEN [heap |-> [a \in {sentryHead, sentryTail} |->
                    IF a = sentryHead
                    THEN [SkipListNode(0, 0) EXCEPT !.nodes[0] = sentryTail]
                    ELSE [SkipListNode(0, 0) EXCEPT !.nodes[1] = sentryHead]],
        width |-> 0, level |-> 0]
  ELSE CHOOSE r \in {Assigned(c, (n - 1) * capacity_limit, 1, TrailingZeros(n), {}) :
                       c \in {Filled(n - 1)}} : TRUE

FilledKeys == {i * capacity_limit : i \in 0 .. (FilledBlocks - 1)}

\* the keys the operations are applied to once the container is filled: the
\* key one block past the last one is assigned and erased, the first key is
\* erased
AppendKeys == {FilledBlocks * capacity_limit}
TallKeys == {0} \cup AppendKeys

InitTall ==
  \E c \in {Filled(FilledBlocks)} :
     /\ heap = c.heap
     /\ width = c.width
     /\ level = c.level
     /\ ref = [k \in FilledKeys |-> 1]
     /\ last = [op |-> "new", index |-> 0, ret |-> invalid]

NextTall ==
  \/ \E index \in AppendKeys, value \in Values : Assign(index, value)
  \/ \E index \in AppendKeys : Index(index)
  \/ \E index \in TallKeys : Erase(index)
  \/ \E index \in TallKeys : Has(index)
  \/ \E index \in TallKeys : Read(index)

SpecTall == InitTall /\ [][NextTall]_vars

\* A container that has grown past height minLevel + 1: WideBlocks keys one
\* block apart are assigned in ascending order, then the operations of
\* SpecTall are applied to the first key and to a key in the middle.
InitWide ==
  \E c \in {Filled(WideBlocks)} :
     /\ heap = c.heap
     /\ width = c.width
     /\ level = c.level
     /\ ref = [k \in {i * capacity_limit : i \in 0 .. (WideBlocks - 1)} |-> 1]
     /\ last = [op |-> "new", index |-> 0, ret |-> invalid]

SpecWide == InitWide /\ [][NextTall]_vars

\* A container that reached height minLevel and is then drained: DrainBlocks
\* keys one block apart are assigned in ascending order, then any of them is
\* erased, in any order, and the first key is assigned again.
DrainKeys == {i * capacity_limit : i \in 0 .. (DrainBlocks - 1)}
ReturnKeys == {0}

InitDrain ==
  \E c \in {Filled(DrainBlocks)} :
     /\ heap = c.heap
     /\ width = c.width
     /\ level = c.level
     /\ ref = [k \in DrainKeys |-> 1]
     /\ last = [op |-> "new", index |-> 0, ret |-> invalid]

NextDrain ==
  \/ \E index \in ReturnKeys, value \in Values : Assign(index, value)
  \/ \E index \in DrainKeys : Erase(index)

SpecDrain == InitDrain /\ [][NextDrain]_vars

\* The two insertion loops of the tests on an empty container: the keys
\* 0, 1, 2, ... in ascending order, and keys a fixed stride of at least
\* capacity_limit apart; the n-th assignment of a loop is enabled when the
\* keys assigned so far are the first n keys of the loop.
Strides == {capacity_limit, 100}

AssignAscending ==
  \E n \in 0 .. (AscendKeys - 1) :
    /\ DOMAIN ref = 0 .. (n - 1)
    /\ Assign(n, 1)

AssignSparse ==
  \E stride \in Strides, n \in 0 .. (SparseKeys - 1) :
    /\ DOMAIN ref = {i * stride : i \in 0 .. (n - 1)}
    /\ Assign(n * stride, 1)

NextLoad == AssignAscending \/ AssignSparse

SpecLoad == Init /\ [][NextLoad]_vars

\* The filled container of SpecTall with a second key in its first block:
\* key 1 is written by the mutable operator[], so that an erase of key 0 or
\* of key 1 may leave the first block non-empty.
SecondKeys == {1}
ShrinkKeys == TallKeys \cup SecondKeys

NextShrink ==
  \/ \E index \in AppendKeys, value \in Values : Assign(index, value)
  \/ \E index \in SecondKeys : Index(index)
  \/ \E index \in ShrinkKeys : Erase(index)

SpecShrink == InitTall /\ [][NextShrink]_vars

\* Keys of one aligned window and the first key of the next one, assigned and
\* erased in any order: the blocks of bases 0, 40 and 63 come to stand in
\* any combination, with windows that overlap.
OverlapKeys == {0, 40, capacity_limit - 1, capacity_limit}

NextOverlap ==
  \/ \E index \in OverlapKeys : Assign(index, 1)
  \/ \E index \in OverlapKeys : Erase(index)

SpecOverlap == Init /\ [][NextOverlap]_vars

\* Keys of test1 that share one block at growing offsets: each of them is
\* assigned, read through the mutable operator[] and erased in any order, so
\* that the element buffer of a block grows by one or by several doublings at
\* once.
OffsetKeys == {0, 5, 31}

NextCapacity ==
  \/ \E index \in OffsetKeys, value \in Values : Assign(index, value)
  \/ \E index \in OffsetKeys : Index(index)
  \/ \E index \in OffsetKeys : Erase(index)

SpecCapacity == Init /\ [][NextCapacity]_vars

\* The earlier revision under its two operations: valid values are set at a
\* key, at keys 5 and 20 further on in the same block and at the key 256
\* further on, in any order, and any of the keys is read.
PriorKeys == {0, 5, 20, 256}

\* the draws setElement consumes on c: it splices when the block found does
\* not pass its own coverage test
VSL_Splices(c, index) ==
  \/ c.width = 0
  \/ findLeftNode(c, index) = sentryHead
  \/ ~ULe(c.heap[findLeftNode(c, index)].baseIndex, index)
  \/ ~VSL_isIndexValid(USub(index, c.heap[findLeftNode(c, index)].baseIndex))

SetElement(index, value) ==
  \E count \in IF VSL_Splices(C, index) THEN (0 .. level) \cup {64} ELSE {0},
     coins \in IF VSL_Splices(C, index) /\ width + 1 > Pow2(level)
               THEN SUBSET ({a \in DOMAIN heap \ {sentryHead, sentryTail} :
                               heap[a].level = level} \cup {NewAddress(heap, index)})
               ELSE {{}},
     stray \in StrayOutcomes :
    \E c1 \in {VSL_setElement(C, index, value, count, coins, stray)} :
       /\ heap' = c1.heap
       /\ width' = c1.width
       /\ level' = c1.level
       /\ ref' = Put(ref, index, value)
       /\ last' = [op |-> "set", index |-> index, ret |-> value]

GetElement(index) ==
  /\ last' = [op |-> "get", index |-> index, ret |-> VSL_getElement(C, index)]
  /\ UNCHANGED <<heap, width, level, ref>>

NextPrior ==
  \/ \E index \in PriorKeys, value \in Values \ {invalid} : SetElement(index, value)
  \/ \E index \in PriorKeys : GetElement(index)

SpecPrior == Init /\ [][NextPrior]_vars

--------------------------------------------------------------------------
\* the live non-sentinel blocks
Blocks == DOMAIN heap \ {sentryHead, sentryTail}

\* the value the reference map gives for k
RefValue(k) == IF k \in DOMAIN ref THEN ref[k] ELSE invalid

\* C1: after every history of assignments and erases, for every key k, has(k)
\* is true exactly when k is in the reference map built from the same history
\* and the read-only index read of k returns the reference map's value for k,
\* or the invalid value when k is not in the map.
C1_AgreesWithReferenceMap ==
  \A k \in Keys :
    /\ has(C, k) <=> (k \in DOMAIN ref)
    /\ IndexConst(C, k) = RefValue(k)

\* an erase has just removed a key while another key holds a valid value
C1_Witness ==
  /\ last.op = "erase"
  /\ last.ret = TRUE
  /\ \E k \in DOMAIN ref : ref[k] # invalid

\* C2: erase(k) returns true exactly when has(k) was true immediately before
\* the call, whether or not the block survives, and immediately after any
\* erase(k) has(k) is false and a read of k returns the invalid value.
C2_EraseReturnsHas ==
  \A k \in Keys :
    LET r == erase(C, k)
    IN /\ r.ret = has(C, k)
       /\ ~has(r.c, k)
       /\ IndexConst(r.c, k) = invalid

\* an erase has just returned true and left its block linked
C2_Witness ==
  /\ last.op = "erase"
  /\ last.ret = TRUE
  /\ \E a \in Blocks :
       /\ Covers(C, a, last.index)
       /\ USub(last.index, heap[a].baseIndex) \in DOMAIN heap[a].elements
       /\ ~isEmpty(heap[a])

\* the three shapes of an absent key
EmptyContainer == width = 0
NotCovered(k) == width > 0 /\ ~Covers(C, findLeftNode(C, k), k)
SlotClear(k) ==
  /\ width > 0
  /\ Covers(C, findLeftNode(C, k), k)
  /\ ~hasElement(heap[findLeftNode(C, k)], USub(k, heap[findLeftNode(C, k)].baseIndex))

\* C3: absence is never an error: on an empty container, for a key no block
\* covers and for a key whose covering block has the slot bit clear, has(k)
\* returns false, erase(k) returns false, the read-only index read returns the
\* invalid value, and erase(k) changes no block, link, width or height.
C3_AbsenceIsNoError ==
  \A k \in Keys :
    (EmptyContainer \/ NotCovered(k) \/ SlotClear(k)) =>
      /\ has(C, k) = FALSE
      /\ erase(C, k) = [c |-> C, ret |-> FALSE]
      /\ IndexConst(C, k) = invalid

\* an erase has just returned false for a key whose block has the slot clear,
\* while another key has no covering block
C3_Witness ==
  /\ last.op = "erase"
  /\ last.ret = FALSE
  /\ SlotClear(last.index)
  /\ \E k \in Keys : NotCovered(k)

\* C4: reinsertion: in the state an assignment c[k] = v leaves, erase(k)
\* followed by c[k] = v' leaves has(k) true and a read of k equal to v', for
\* every v' and every outcome of the PRNG, also when the erase unlinked and
\* deallocated the block of k.
C4_Reinsertion ==
  last.op = "assign" =>
    LET k == last.index
        e == erase(C, k)
    IN /\ e.ret = TRUE
       /\ ~has(e.c, k)
       /\ \A v \in Values, count \in Counts(e.c, k), coins \in Coins(e.c, k) :
            LET c3 == Assigned(e.c, k, v, count, coins)
            IN has(c3, k) /\ IndexConst(c3, k) = v

\* c[k] = v has just run with a valid v, and erase(k) unlinks the block of k
C4_Witness ==
  /\ last.op = "assign"
  /\ last.ret # invalid
  /\ erase(C, last.index).c.width = width - 1
  /\ width >= 2

\* C5: erase is idempotent: erase(k); erase(k) returns true then false when k
\* was present and false, false when it was absent, and the container (blocks,
\* bitmaps, links, width, height) after the second erase equals the container
\* after the first.
C5_EraseIdempotent ==
  \A k \in Keys :
    LET e1 == erase(C, k)
        e2 == erase(e1.c, k)
    IN /\ e1.ret = has(C, k)
       /\ e2.ret = FALSE
       /\ e2.c = e1.c

\* an erase has just returned true and unlinked its block
C5_Witness ==
  /\ last.op = "erase"
  /\ last.ret = TRUE
  /\ \A a \in Blocks : ~Covers(C, a, last.index)
  /\ width >= 1

\* an embedding of the keys into the naturals that keeps the order of uint64_t
Ord(k) == IF k >= 0 THEN k ELSE k + 2 ^ 30

\* C6: the two ends of the key space behave like any other key: once c[0] = a
\* and c[2^64-1] = b were assigned (and not erased), has is true for both, the
\* reads return a and b and the two keys live in two distinct blocks; and the
\* node the coverage test (k - base) < capacity_limit is applied to always has
\* base <= k, so the difference never wraps around modulo 2^64.
C6_EndsOfKeySpace ==
  /\ ({0, UINT64_MAX} \subseteq DOMAIN ref) =>
        /\ has(C, 0) /\ has(C, UINT64_MAX)
        /\ IndexConst(C, 0) = ref[0]
        /\ IndexConst(C, UINT64_MAX) = ref[UINT64_MAX]
        /\ findLeftNode(C, 0) \in Blocks
        /\ findLeftNode(C, UINT64_MAX) \in Blocks
        /\ findLeftNode(C, 0) # findLeftNode(C, UINT64_MAX)
  /\ \A k \in Keys :
        LET node == findLeftNode(C, k)
        IN node # sentryHead => Ord(heap[node].baseIndex) <= Ord(k)

\* c[2^64-1] = b has just run after c[0] = a, both with valid values
C6_Witness ==
  /\ last.op = "assign"
  /\ last.index = UINT64_MAX
  /\ {0, UINT64_MAX} \subseteq DOMAIN ref
  /\ ref[0] # invalid /\ ref[UINT64_MAX] # invalid

\* C7: the mutable operator[](k) on an absent k (slot clear in the covering
\* block, or no covering block) sets the slot of k to the invalid value and
\* marks it present, so has(k) is true and a read of k returns the invalid
\* value right afterwards; on a present k it changes nothing and refers to
\* the stored value.
C7_IndexWriteMaterializes ==
  \A k \in Keys : \A count \in Counts(C, k), coins \in Coins(C, k) :
    LET r == IndexMut(C, k, count, coins)
    IN IF has(C, k)
       THEN /\ r.c = C
            /\ Load(r.c.heap[r.node].elements, r.offset) = IndexConst(C, k)
       ELSE /\ has(r.c, k)
            /\ IndexConst(r.c, k) = invalid
            /\ Load(r.c.heap[r.node].elements, r.offset) = invalid

\* operator[](k) has just materialized k in a block that holds another key
C7_Witness ==
  /\ last.op = "index"
  /\ last.ret = invalid
  /\ has(C, last.index)
  /\ \E a \in Blocks :
       /\ Covers(C, a, last.index)
       /\ Cardinality(heap[a].bitMap) >= 2

RECURSIVE Walk(_, _, _, _)
Walk(h, node, lvl, fuel) ==
  IF node = sentryTail THEN <<sentryTail>>
  ELSE IF fuel = 0 \/ node \notin DOMAIN h \/ h[node].level < lvl THEN <<NIL>>
  ELSE <<node>> \o Walk(h, getRightNode(h, node, lvl), lvl, fuel - 1)

LevelChain(lvl) == Walk(heap, sentryHead, lvl, Cardinality(DOMAIN heap))

\* C9: for every level l in 0..height the right links of level l lead from
\* head through exactly the non-sentinel blocks of level >= l, each once, in
\* strictly increasing order of base, and end at tail.
C9_LevelChains ==
  \A l \in 0 .. level :
    LET w == LevelChain(l)
        n == Len(w)
    IN /\ w[1] = sentryHead
       /\ w[n] = sentryTail
       /\ {w[i] : i \in 2 .. (n - 1)} = {a \in Blocks : heap[a].level >= l}
       /\ n - 2 = Cardinality({a \in Blocks : heap[a].level >= l})
       /\ \A i \in 2 .. (n - 2) :
            Ord(heap[w[i]].baseIndex) < Ord(heap[w[i + 1]].baseIndex)

\* an erase has unlinked a block of a container of height minLevel + 1 and
\* decreaseLevel has brought the height, and the blocks of the top level,
\* down to minLevel
C9_Witness ==
  /\ last.op = "erase" /\ last.ret = TRUE
  /\ level = minLevel
  /\ width = Pow2(minLevel)
  /\ \E a, b \in Blocks : heap[a].level = level /\ heap[b].level < level

\* the nodes that take part in level lvl
Participants(lvl) == {a \in DOMAIN heap : heap[a].level >= lvl}

\* C10: link symmetry: for every level l in 0..height and all nodes a, b of
\* level l, a.right[l] = b exactly when b.left[l] = a; head is the leftmost
\* and tail the rightmost node of every level.
C10_LinkSymmetry ==
  \A l \in 0 .. level :
    /\ \A a, b \in Participants(l) :
         (getRightNode(heap, a, l) = b) <=> (getLeftNode(heap, b, l) = a)
    /\ \A a \in Participants(l) :
         /\ getRightNode(heap, a, l) # sentryHead
         /\ getLeftNode(heap, a, l) # sentryTail
         /\ a # sentryTail => getRightNode(heap, a, l) \in Participants(l)
         /\ a # sentryHead => getLeftNode(heap, a, l) \in Participants(l)
    /\ getLeftNode(heap, sentryHead, l) \notin Participants(l)
    /\ getRightNode(heap, sentryTail, l) \notin Participants(l)

\* a block was spliced between two blocks on an upper level
C10_Witness ==
  /\ last.op \in {"assign", "index"}
  /\ width = 3
  /\ \E a \in Blocks :
       /\ heap[a].baseIndex = last.index
       /\ heap[a].level >= 1
       /\ getLeftNode(heap, a, 1) \in Blocks
       /\ getRightNode(heap, a, 1) \in Blocks

\* the blocks met on the walk from head along the right links of level 0
Level0Blocks ==
  LET w == LevelChain(0) IN {w[i] : i \in 2 .. (Len(w) - 1)}

\* C11: no empty blocks: every block reachable from head at level 0 has a
\* bitmap that is not 0, and the allocated blocks are exactly the reachable
\* ones: a block exists only with an occupied slot, and the erase that clears
\* the last bit of a block has unlinked and freed it when it returns.
C11_NoEmptyBlocks ==
  /\ \A a \in Level0Blocks : a \in Blocks /\ ~isEmpty(heap[a])
  /\ Blocks = Level0Blocks

\* an erase has cleared the last bit of a block and the block is gone, while
\* another block is still there
C11_Witness ==
  /\ last.op = "erase" /\ last.ret = TRUE
  /\ width >= 1
  /\ ~Covers(C, findLeftNode(C, last.index), last.index)

\* the sum of the popcounts of the bitmaps of the blocks in S
RECURSIVE PopCounts(_)
PopCounts(S) ==
  IF S = {} THEN 0
  ELSE LET a == CHOOSE x \in S : TRUE
       IN Cardinality(heap[a].bitMap) + PopCounts(S \ {a})

\* has(k) is true only for a key that is base + i for a set bit i of some
\* block, so the keys with has(k) true are among these
BitKeys ==
  UNION {{heap[a].baseIndex + i : i \in heap[a].bitMap} : a \in Blocks}

\* C12: count consistency: width is the number of blocks on the walk from
\* head along the right links of level 0 to tail, and the popcounts of their
\* bitmaps add up to the number of keys k with has(k) true (which is the
\* size of the reference map).
C12_CountConsistency ==
  /\ width = Len(LevelChain(0)) - 2
  /\ width = Cardinality(Level0Blocks)
  /\ PopCounts(Level0Blocks) = Cardinality({k \in BitKeys : has(C, k)})
  /\ PopCounts(Level0Blocks) = Cardinality(DOMAIN ref)

\* an erase has unlinked one block and left a block that holds two keys
C12_Witness ==
  /\ last.op = "erase" /\ last.ret = TRUE
  /\ ~Covers(C, findLeftNode(C, last.index), last.index)
  /\ width = 1
  /\ \E a \in Blocks : Cardinality(heap[a].bitMap) = 2

\* C13: the levels of head and tail equal the height of the container, every
\* other block has a level in 0..height, and the height is not negative.
C13_LevelsWithinHeight ==
  /\ heap[sentryHead].level = level
  /\ heap[sentryTail].level = level
  /\ \A a \in Blocks : heap[a].level \in 0 .. level
  /\ level >= 0

\* the erase of the first key has brought the height down from minLevel + 1
\* and a block that was spliced at the end is on the new top level
C13_Witness ==
  /\ last.op = "erase" /\ last.ret = TRUE /\ last.index = 0
  /\ level = minLevel
  /\ heap[sentryHead].level = minLevel
  /\ \E a \in Blocks : heap[a].baseIndex \in AppendKeys /\ heap[a].level = level

\* the least e with 2^e >= n, for n >= 1
RECURSIVE CeilLog2(_)
CeilLog2(n) == IF n <= 1 THEN 0 ELSE 1 + CeilLog2((n + 1) \div 2)

\* C14: height bound: height <= ceil(log2(max(1, width))) + minLevel in every
\* reachable state.
C14_HeightBound ==
  level <= CeilLog2(IF width > 1 THEN width ELSE 1) + minLevel

\* the bound is met: erases have left one block in a container that still
\* has height minLevel
C14_Witness ==
  /\ last.op = "erase" /\ last.ret = TRUE
  /\ width = 1
  /\ level = minLevel

\* C15: for every live block and every offset i whose bit is set, i lies
\* inside the allocated element buffer (i < element_capacity) and elements[i]
\* is the value most recently written to key baseIndex + i.
C15_SetBitsHoldValues ==
  \A a \in Blocks : \A i \in heap[a].bitMap :
    /\ i < heap[a].element_capacity
    /\ i \in DOMAIN heap[a].elements
    /\ (heap[a].baseIndex + i) \in DOMAIN ref
    /\ heap[a].elements[i] = ref[heap[a].baseIndex + i]

\* the assignment to key 63 has grown the buffer of the block of key 0 to
\* capacity_limit slots and the value of key 0 is still in slot 0
C15_Witness ==
  /\ last.op = "assign" /\ last.index = capacity_limit - 1
  /\ \E a \in Blocks :
       /\ heap[a].baseIndex = 0
       /\ heap[a].bitMap = {0, capacity_limit - 1}
       /\ heap[a].element_capacity = capacity_limit
       /\ heap[a].elements[0] = 1
       /\ heap[a].elements[capacity_limit - 1] = invalid

\* the aligned window of key k: k & ~(capacity_limit - 1)
AlignedBase(k) == k - (k % capacity_limit)

\* the blocks that hold key k
Holders(k) ==
  {a \in Blocks : /\ ULe(heap[a].baseIndex, k)
                  /\ isIndexValid(USub(k, heap[a].baseIndex))
                  /\ hasElement(heap[a], USub(k, heap[a].baseIndex))}

C17_WorkloadBlockCounts ==
  LET n == Cardinality(DOMAIN ref)
  IN /\ DOMAIN ref = 0 .. (n - 1) =>
          width = (n + capacity_limit - 1) \div capacity_limit
     /\ \A stride \in Strides :
          DOMAIN ref = {i * stride : i \in 0 .. (n - 1)} => width = n
     /\ \A k \in 0 .. (last.index + capacity_limit) : has(C, k) <=> k \in DOMAIN ref

\* the ascending loop has just opened its third block
C17_Witness ==
  /\ last.op = "assign" /\ last.index = 2 * capacity_limit
  /\ DOMAIN ref = 0 .. (2 * capacity_limit)
  /\ width = 3

\* the sparse loop of stride 100 has assigned its last key
C17_WitnessSparse ==
  /\ last.op = "assign" /\ last.index = (SparseKeys - 1) * 100
  /\ width = SparseKeys

Live(h, node, lvl) == node \in DOMAIN h /\ h[node].level >= lvl

\* the descent of findLeftNode reaches level -1
RECURSIVE findLeftNode_ends(_, _, _, _, _)
findLeftNode_ends(c, node, curLevel, index, fuel) ==
  IF curLevel < 0 THEN TRUE
  ELSE IF fuel = 0 \/ ~Live(c.heap, node, curLevel) THEN FALSE
  ELSE LET next == getRightNode(c.heap, node, curLevel)
       IN IF next = sentryTail THEN findLeftNode_ends(c, node, curLevel - 1, index, fuel - 1)
          ELSE IF ~Live(c.heap, next, curLevel) THEN FALSE
          ELSE IF ULe(c.heap[next].baseIndex, index)
               THEN findLeftNode_ends(c, next, curLevel, index, fuel - 1)
               ELSE findLeftNode_ends(c, node, curLevel - 1, index, fuel - 1)

\* 'while (left->level < i) left = left->getLeftNode(i - 1)' stops
RECURSIVE ClimbLeft_ends(_, _, _, _)
ClimbLeft_ends(h, left, i, fuel) ==
  IF ~Live(h, left, i - 1) THEN FALSE
  ELSE IF h[left].level >= i THEN TRUE
  ELSE IF fuel = 0 THEN FALSE
  ELSE ClimbLeft_ends(h, getLeftNode(h, left, i - 1), i, fuel - 1)

\* 'while (right->level < i) right = right->getRightNode(i - 1)' stops
RECURSIVE ClimbRight_ends(_, _, _, _)
ClimbRight_ends(h, right, i, fuel) ==
  IF ~Live(h, right, i - 1) THEN FALSE
  ELSE IF h[right].level >= i THEN TRUE
  ELSE IF fuel = 0 THEN FALSE
  ELSE ClimbRight_ends(h, getRightNode(h, right, i - 1), i, fuel - 1)

\* the promotion walk of increaseLevel along the top level reaches tail
RECURSIVE Promote_ends(_, _, _, _)
Promote_ends(h, node, lvl, fuel) ==
  IF node = sentryTail THEN TRUE
  ELSE IF fuel = 0 \/ ~Live(h, node, lvl) THEN FALSE
  ELSE Promote_ends(h, getRightNode(h, node, lvl), lvl, fuel - 1)

\* the walk of decreaseLevel along the top level ends on a null right link
RECURSIVE DemoteWalk_ends(_, _, _, _)
DemoteWalk_ends(h, node, lvl, fuel) ==
  IF node = NIL THEN TRUE
  ELSE IF fuel = 0 \/ ~Live(h, node, lvl) THEN FALSE
  ELSE DemoteWalk_ends(h, getRightNode(h, node, lvl), lvl, fuel - 1)

\* the keys the operations of the specifications are applied to
AllKeys == Keys \cup TallKeys \cup DrainKeys

\* C19: every public operation terminates from every reachable state: for
\* every key the descent of findLeftNode reaches level -1 within
\* width + height + 1 iterations; from every node the left and right climbs
\* of insertNode stop, at worst at a sentinel, within width + 1 steps; the
\* promotion walk of increaseLevel reaches tail within width steps; and the
\* walk of decreaseLevel ends on the null right link of tail.
C19_LoopsEnd ==
  /\ \A index \in AllKeys :
       findLeftNode_ends(C, sentryHead, level, index, width + level + 1)
  /\ \A i \in 1 .. level : \A a \in DOMAIN heap :
       heap[a].level >= i - 1 =>
         /\ ClimbLeft_ends(heap, a, i, width + 1)
         /\ ClimbRight_ends(heap, a, i, width + 1)
  /\ Promote_ends(heap, getRightNode(heap, sentryHead, level), level, width)
  /\ DemoteWalk_ends(heap, sentryHead, level, width + 2)
  /\ getRightNode(heap, sentryTail, level) = NIL

\* an assignment has spliced a block on two or more levels and raised the
\* height to minLevel + 1
C19_Witness ==
  /\ last.op = "assign"
  /\ level = minLevel + 1
  /\ \E a \in Blocks :
       /\ heap[a].baseIndex = last.index
       /\ heap[a].bitMap = {0}
       /\ heap[a].level \in 1 .. minLevel

\* C20: growth trigger: the height increases only in an index write that
\* splices a new block (width goes up by one), then by exactly one, and it
\* does so exactly when the new width exceeds 2^(old height); an index write
\* to a covered key, an erase, a read and has never increase the height.
C20_GrowthTrigger ==
  [][ /\ level' > level =>
           /\ last'.op \in {"assign", "index"}
           /\ Splices(C, last'.index)
           /\ width' = width + 1
           /\ level' = level + 1
      /\ width' = width + 1 =>
           (level' = level + 1 <=> width' > Pow2(level))
      /\ width' = width + 1 => level' \in {level, level + 1}
      /\ width' <= width => level' <= level ]_vars

\* the splice of a third block has raised the height from 1 to 2
C20_Witness ==
  /\ last.op \in {"assign", "index"}
  /\ width = 3
  /\ level = 2
  /\ \E a \in Blocks : heap[a].baseIndex = last.index /\ heap[a].bitMap = {0}

\* the blocks of the top level
TopBlocks == {a \in Blocks : heap[a].level = level}

\* C21: every increaseLevel on a non-empty list promotes at least one block:
\* after a step that raised the height, some non-sentinel block is on the new
\* top level, for every outcome of the coins.
C21_GrowthPromotesOne ==
  [][ level' > level => \E a \in DOMAIN heap' \ {sentryHead, sentryTail} :
                          heap'[a].level = level' ]_vars

\* C22: the top level is never empty: whenever width >= 1 and height >= 1,
\* some non-sentinel block has level = height.
C22_TopLevelNeverEmpty ==
  (width >= 1 /\ level >= 1) =>
     (TopBlocks # {} /\ getRightNode(heap, sentryHead, level) # sentryTail)

C24_NoOscillation ==
  [][ (/\ last.op \in {"assign", "index"}
       /\ level >= 1
       /\ width = Pow2(level - 1) + 1
       /\ \E a \in Blocks : heap[a].baseIndex = last.index /\ heap[a].bitMap = {0}
       /\ width' = width - 1) => level' = level ]_vars

\* C25: the frame of a shrink: decreaseLevel, applied to a reachable
\* container of height >= 1, lowers by exactly one the level of the head
\* sentinel, of the tail sentinel and of exactly the blocks whose level
\* equals the old height; it leaves every other block's level and every
\* link of a level below the old height unchanged, creates and frees no
\* node, keeps the width, and decrements the height by one.
C25_ShrinkFrame ==
  level >= 1 =>
    \A d \in {decreaseLevel(C)} :
      /\ d.level = level - 1
      /\ d.width = width
      /\ DOMAIN d.heap = DOMAIN heap
      /\ \A a \in DOMAIN heap :
           /\ d.heap[a].level =
                IF a \in {sentryHead, sentryTail} \/ heap[a].level = level
                THEN level - 1
                ELSE heap[a].level
           /\ \A i \in DOMAIN heap[a].nodes :
                i < 2 * level =>
                  /\ i \in DOMAIN d.heap[a].nodes
                  /\ d.heap[a].nodes[i] = heap[a].nodes[i]

\* an erase of key 0 has shrunk the container from height minLevel + 1 to
\* minLevel while the appended block stays, and a block sits on the new top
\* level
C25_Witness ==
  /\ last.op = "erase" /\ last.ret = TRUE /\ last.index = 0
  /\ level = minLevel
  /\ width = Pow2(minLevel)
  /\ AppendKeys \subseteq DOMAIN ref
  /\ \E a \in Blocks : heap[a].level = minLevel
  /\ \E a \in Blocks : heap[a].level < minLevel

\* C26: the splice.  For every count of trailing zeros of a PRNG output (64
\* is the count of the output 0) getRandomLevel gives a level in 0..height.
\* In every step that creates a block a, with l_new its level before any
\* growth of the same step: l_new is in 0..height (the height before the
\* step); for each level j in 0..l_new the left link of a is the head
\* sentinel or the block of greatest base below a's base among the blocks of
\* level >= j, its right link is the tail sentinel or the block of smallest
\* base above a's base among the blocks of level >= j, and both neighbours
\* point back to a; the links of every old node at levels above l_new are
\* unchanged.
C26_Splice ==
  [][ /\ \A count \in 0 .. 64 : getRandomLevel(C, count) \in 0 .. level
      /\ \A a \in DOMAIN heap' \ DOMAIN heap :
           \A lnew \in {IF level' > level /\ heap'[a].level = level'
                        THEN level ELSE heap'[a].level} :
             /\ lnew \in 0 .. level
             /\ \A j \in 0 .. lnew :
                  \A l \in {getLeftNode(heap', a, j)},
                     r \in {getRightNode(heap', a, j)} :
                    /\ l \in DOMAIN heap \ {sentryTail}
                    /\ r \in DOMAIN heap \ {sentryHead}
                    /\ l # sentryHead =>
                         /\ heap[l].level >= j
                         /\ Ord(heap[l].baseIndex) < Ord(heap'[a].baseIndex)
                    /\ r # sentryTail =>
                         /\ heap[r].level >= j
                         /\ Ord(heap[r].baseIndex) > Ord(heap'[a].baseIndex)
                    /\ getRightNode(heap', l, j) = a
                    /\ getLeftNode(heap', r, j) = a
                    /\ \A b \in Blocks :
                         heap[b].level >= j =>
                           /\ Ord(heap[b].baseIndex) < Ord(heap'[a].baseIndex) =>
                                /\ l # sentryHead
                                /\ Ord(heap[b].baseIndex) <= Ord(heap[l].baseIndex)
                           /\ Ord(heap[b].baseIndex) > Ord(heap'[a].baseIndex) =>
                                /\ r # sentryTail
                                /\ Ord(heap[r].baseIndex) <= Ord(heap[b].baseIndex)
             /\ \A b \in DOMAIN heap :
                  \A j \in (lnew + 1) .. heap[b].level :
                    /\ getLeftNode(heap', b, j) = getLeftNode(heap, b, j)
                    /\ getRightNode(heap', b, j) = getRightNode(heap, b, j) ]_vars

\* the block of base capacity_limit - 1 was spliced between the block of key
\* 0 and the block of key 2^64-1 on level 0 and, above the block of key 0,
\* next to the head sentinel on level 1
C26_Witness ==
  /\ last.op \in {"assign", "index"} /\ last.index = capacity_limit - 1
  /\ \E a, b, d \in Blocks :
       /\ heap[a].baseIndex = capacity_limit - 1
       /\ heap[b].baseIndex = 0
       /\ heap[d].baseIndex = UINT64_MAX
       /\ heap[a].level >= 1 /\ heap[b].level = 0
       /\ getLeftNode(heap, a, 0) = b
       /\ getLeftNode(heap, a, 1) = sentryHead
       /\ getRightNode(heap, a, 0) = d

\* the keys findLeftNode is probed with: the keys of the operations and, for
\* every block, its base and the keys just below and just above its base
ProbeKeys ==
  AllKeys \cup SecondKeys
    \cup {heap[b].baseIndex : b \in Blocks}
    \cup {heap[b].baseIndex - 1 : b \in {x \in Blocks : heap[x].baseIndex # 0}}
    \cup {heap[b].baseIndex + 1 : b \in {x \in Blocks : heap[x].baseIndex # UINT64_MAX}}

\* C27: routing: in every reachable state and for every key k,
\* findLeftNode(k) is the head sentinel when no block has a base <= k, and
\* otherwise the block whose base is the greatest base <= k (unsigned
\* order); the answer is fixed by the bases alone, whatever the levels of
\* the blocks and the height.
C27_Routing ==
  \A k \in ProbeKeys :
    \A n \in {findLeftNode(C, k)} :
      \A below \in {{b \in Blocks : Ord(heap[b].baseIndex) <= Ord(k)}} :
        /\ n # sentryTail
        /\ below = {} <=> n = sentryHead
        /\ below # {} =>
             /\ n \in below
             /\ \A b \in below : Ord(heap[b].baseIndex) <= Ord(heap[n].baseIndex)

\* three blocks, the middle one only on level 0 and the first one on a higher
\* level: the key of the middle block and the key below it are routed to two
\* different blocks, and the key below 2^64-1 to the middle block
C27_Witness ==
  /\ level >= 1
  /\ \E a, b, d \in Blocks :
       /\ heap[a].baseIndex = 0
       /\ heap[b].baseIndex = capacity_limit - 1
       /\ heap[d].baseIndex = UINT64_MAX
       /\ heap[a].level >= 1 /\ heap[b].level = 0
       /\ findLeftNode(C, capacity_limit - 1) = b
       /\ findLeftNode(C, capacity_limit - 2) = a
       /\ findLeftNode(C, UINT64_MAX - 1) = b
       /\ findLeftNode(C, UINT64_MAX) = d

\* C28: an assignment c[k] = v to a key covered by an existing block n (n is
\* not the head and k - n.base < capacity_limit) writes v to slot k - n.base
\* of n and sets bit k - n.base of its bitmap, and nothing else that can be
\* observed: no block is created or freed, width and height are unchanged,
\* every node keeps its base, its level and its links, every other block is
\* unchanged, and the other bits and the other written slots of n are kept.
C28_CoveredAssignFrame ==
  [][ (/\ last'.op = "assign"
       /\ Covers(C, findLeftNode(C, last'.index), last'.index)) =>
        \A n \in {findLeftNode(C, last'.index)} :
          \A i \in {USub(last'.index, heap[n].baseIndex)} :
            /\ DOMAIN heap' = DOMAIN heap
            /\ width' = width
            /\ level' = level
            /\ \A a \in DOMAIN heap \ {n} : heap'[a] = heap[a]
            /\ heap'[n].baseIndex = heap[n].baseIndex
            /\ heap'[n].level = heap[n].level
            /\ heap'[n].nodes = heap[n].nodes
            /\ heap'[n].node_capacity = heap[n].node_capacity
            /\ heap'[n].bitMap = heap[n].bitMap \cup {i}
            /\ heap'[n].elements[i] = last'.ret
            /\ \A j \in heap[n].bitMap \ {i} :
                 heap'[n].elements[j] = heap[n].elements[j] ]_vars

\* key capacity_limit - 1 was assigned while the block of key 0 covered it:
\* it lives in the last slot of that block, no block has it as its base, and
\* the block of key 2^64-1 stands next to it
C28_Witness ==
  /\ last.op = "assign" /\ last.index = capacity_limit - 1
  /\ width = 2
  /\ \E a, d \in Blocks :
       /\ heap[a].baseIndex = 0
       /\ heap[a].bitMap = {0, capacity_limit - 1}
       /\ heap[a].elements[capacity_limit - 1] = last.ret
       /\ heap[d].baseIndex = UINT64_MAX

\* the smallest power of two >= n
RECURSIVE SmallestPow2(_)
SmallestPow2(n) == IF n <= 1 THEN 1 ELSE 2 * SmallestPow2((n + 1) \div 2)

\* the capacity the claim gives a buffer after a write at offset i
GrownCapacity(i) ==
  SmallestPow2(IF i + 1 > capacity_init THEN i + 1 ELSE capacity_init)

\* every node of h has an element_capacity in S
CapacitiesIn(h, S) == \A a \in DOMAIN h : h[a].element_capacity \in S

\* setElement at every offset i of a node of every capacity 0, 4, 8, ..., 64:
\* a write at i >= element_capacity leaves the smallest power of two
\* >= max(i + 1, capacity_init), which is at most capacity_limit; a write
\* below element_capacity leaves it as it is
CapacityRule ==
  \A cap \in {0} \cup {Pow2(e) : e \in 2 .. 6}, i \in 0 .. (capacity_limit - 1) :
    \A n \in {setElement([SkipListNode(0, 0) EXCEPT !.element_capacity = cap], i, 1)} :
      /\ n.element_capacity <= capacity_limit
      /\ n.element_capacity = IF i >= cap THEN GrownCapacity(i) ELSE cap

\* a step changes the element_capacity of a node only by a write of
\* operator[] at an offset i >= element_capacity of that node, to
\* GrownCapacity(i); such a write always does; a new block starts with
\* GrownCapacity(0); no step lowers the element_capacity of a node
CapacityStep ==
  /\ \A a \in DOMAIN heap \cap DOMAIN heap' :
       /\ heap'[a].element_capacity >= heap[a].element_capacity
       /\ heap'[a].element_capacity # heap[a].element_capacity =>
            /\ last'.op \in {"assign", "index"}
            /\ a = findLeftNode(C, last'.index)
            /\ Covers(C, a, last'.index)
            /\ USub(last'.index, heap[a].baseIndex) >= heap[a].element_capacity
            /\ heap'[a].element_capacity =
                 GrownCapacity(USub(last'.index, heap[a].baseIndex))
  /\ \A a \in DOMAIN heap' \ DOMAIN heap :
       heap'[a].element_capacity = GrownCapacity(0)
  /\ (/\ last'.op \in {"assign", "index"}
      /\ Covers(C, findLeftNode(C, last'.index), last'.index)) =>
       \A n \in {findLeftNode(C, last'.index)} :
         \A i \in {USub(last'.index, heap[n].baseIndex)} :
           i >= heap[n].element_capacity =>
             heap'[n].element_capacity = GrownCapacity(i)

\* C29 as stated: element_capacity is always a member of
\* {0, 4, 8, 16, capacity_limit}; a write at offset i >= element_capacity
\* grows it to the smallest power of two >= max(i + 1, 4), capped at
\* capacity_limit; no operation decreases it.
C29_CapacityFiveValues ==
  [][ /\ CapacitiesIn(heap, {0, 4, 8, 16, capacity_limit})
      /\ CapacitiesIn(heap', {0, 4, 8, 16, capacity_limit})
      /\ CapacityRule
      /\ CapacityStep ]_vars

\* C29, amended: element_capacity is always 0 or a power of two from
\* capacity_init to capacity_limit, that is a member of
\* {0, 4, 8, 16, 32, 64}; a write at offset i >= element_capacity grows it to
\* the smallest power of two >= max(i + 1, 4), which never exceeds
\* capacity_limit; no operation decreases it.
C29_ElementCapacity ==
  [][ \A S \in {{0} \cup {Pow2(e) : e \in 2 .. 6}} :
        /\ S = {0, 4, 8, 16, 32, 64}
        /\ Pow2(2) = capacity_init /\ Pow2(6) = capacity_limit
        /\ CapacitiesIn(heap, S)
        /\ CapacitiesIn(heap', S)
        /\ CapacityRule
        /\ CapacityStep ]_vars

\* the block of base 0 grew its element buffer straight from 4 to 32 slots
\* by the write of key 31, and the erase of that key left the 32 slots
C29_Witness ==
  /\ last.op = "erase" /\ last.ret = TRUE /\ last.index = 31
  /\ \E a \in Blocks :
       /\ heap[a].baseIndex = 0
       /\ heap[a].bitMap = {0}
       /\ heap[a].element_capacity = 32

\* C30: reading an absent key with the indexing operator on a non-const
\* container (value = c[k]) returns the invalid value and leaves the key set
\* unchanged: afterwards has(k) is still false and the width is unchanged.
C30_ReadLeavesKeySet ==
  [][ (last'.op = "index" /\ ~has(C, last'.index)) =>
        /\ last'.ret = invalid
        /\ ~has(C', last'.index)
        /\ width' = width ]_vars

\* what a container shows whatever its generator drew: width, height and,
\* along level 0, base, bitmap, element buffer and element capacity of each
\* block; levels, links above level 0 and addresses are left out
Level0View(c) ==
  LET w == Walk(c.heap, sentryHead, 0, Cardinality(DOMAIN c.heap))
  IN [i \in 1 .. (Len(w) - 2) |->
        [baseIndex        |-> c.heap[w[i + 1]].baseIndex,
         bitMap           |-> c.heap[w[i + 1]].bitMap,
         elements         |-> c.heap[w[i + 1]].elements,
         element_capacity |-> c.heap[w[i + 1]].element_capacity]]

View(c) == [blocks |-> Level0View(c), width |-> c.width, level |-> c.level]

\* the container of view v in which every block has level 0 and the sentinels
\* are linked to each other on every level above 0: it is fixed by v alone
Canon(v) ==
  LET n == Len(v.blocks)
      sentry(a) ==
        [SkipListNode(0, v.level) EXCEPT
           !.nodes = [i \in 0 .. (2 * (v.level + 1) - 1) |->
                        IF a = sentryHead
                        THEN IF i = 0 THEN (IF n = 0 THEN sentryTail ELSE 3)
                             ELSE IF i % 2 = 0 THEN sentryTail ELSE NIL
                        ELSE IF i = 1 THEN (IF n = 0 THEN sentryHead ELSE 2 + n)
                             ELSE IF i % 2 = 1 THEN sentryHead ELSE NIL]]
      block(i) ==
        [SkipListNode(v.blocks[i].baseIndex, 0) EXCEPT
           !.nodes = [j \in 0 .. 1 |->
                        IF j = 0 THEN (IF i = n THEN sentryTail ELSE 3 + i)
                        ELSE (IF i = 1 THEN sentryHead ELSE 1 + i)],
           !.bitMap = v.blocks[i].bitMap,
           !.elements = v.blocks[i].elements,
           !.element_capacity = v.blocks[i].element_capacity]
  IN [heap  |-> [a \in 1 .. (2 + n) |->
                   IF a \in {sentryHead, sentryTail} THEN sentry(a) ELSE block(a - 2)],
      width |-> v.width,
      level |-> v.level]

\* C31: seed independence.  The seed only fixes the outputs of the generator,
\* which only fix the level drawn for a new block and the coins of a growth.
\* Whatever was drawn before and whatever is drawn in a step, the result of
\* the operation (of has, erase and both reads) and the view of the container
\* after it (width, height, and the blocks of level 0 with their bases,
\* bitmaps and elements) are those the same operation gives on the canonical
\* container of the view before the step, with the draws 0 and no coin: so
\* results, width and height after every step are fixed by the sequence of
\* operations alone, and two containers given the same operations differ at
\* most in block levels and links above level 0.
C31_SeedIndependence ==
  [][ \A k \in {last'.index} :
        \A f \in {Canon(View(C))} :
          /\ View(f) = View(C)
          /\ last'.op = "assign" =>
               View(C') = View(Assigned(f, k, last'.ret, 0, {}))
          /\ last'.op = "index" =>
               \A r \in {IndexMut(f, k, 0, {})} :
                 /\ View(C') = View(r.c)
                 /\ last'.ret = Load(r.c.heap[r.node].elements, r.offset)
          /\ last'.op = "erase" =>
               \A r \in {erase(f, k)} :
                 /\ View(C') = View(r.c)
                 /\ last'.ret = r.ret
          /\ last'.op = "has" =>
               (View(C') = View(f) /\ last'.ret = has(f, k))
          /\ last'.op = "read" =>
               (View(C') = View(f) /\ last'.ret = IndexConst(f, k)) ]_vars

\* a container of height 2 with two blocks on level 1 and a third one only
\* on level 0, so that it differs from the canonical container of its view
C31_Witness ==
  /\ last.op \in {"assign", "index"}
  /\ width = 3 /\ level = 2
  /\ Cardinality({a \in Blocks : heap[a].level = 1}) = 2
  /\ Cardinality({a \in Blocks : heap[a].level = 0}) = 1
  /\ C # Canon(View(C))

\* C32: no stored entry is shadowed: in every reachable state, for any two
\* neighbours a (left) and c (right) of level 0, both blocks, every set
\* offset i of a gives a key a.base + i below c.base; and every set bit i of
\* every block b is visible: has(b.base + i) is true and findLeftNode routes
\* b.base + i to b.
C32_NoShadowedEntry ==
  /\ \A a \in Blocks :
       \A c \in {getRightNode(heap, a, 0)} \ {sentryTail} :
         \A i \in heap[a].bitMap :
           Ord(heap[a].baseIndex) + i < Ord(heap[c].baseIndex)
  /\ \A b \in Blocks :
       \A i \in heap[b].bitMap :
         /\ has(C, heap[b].baseIndex + i)
         /\ findLeftNode(C, heap[b].baseIndex + i) = b

\* key 40 was written into the block of base 0 while the block of base 63
\* stands inside the window of that block, and key 64 lives in the block of
\* base 63
C32_Witness ==
  /\ last.op = "assign" /\ last.index = 40
  /\ \E a, c \in Blocks :
       /\ heap[a].baseIndex = 0
       /\ heap[c].baseIndex = capacity_limit - 1
       /\ getRightNode(heap, a, 0) = c
       /\ heap[a].bitMap = {0, 40}
       /\ heap[c].bitMap = {0, 1}

\* C33: between public operations width <= 2^height: the number of blocks
\* never exceeds two to the power of the current height.
C33_WidthWithinPow2Height == width <= Pow2(level)

\* C34: in the earlier revision, after any sequence of setElement calls with
\* values different from invalid, getElement(k, out) leaves out equal to the
\* last value set for k, or to invalid if k was never set, for every key k,
\* whatever its distance from the base of the nearest block to its left and
\* whatever offset inside a block it falls on.
C34_GetReturnsLastSet ==
  \A k \in PriorKeys : VSL_getElement(C, k) = RefValue(k)

\* level + 1 <= node_capacity, and the link array of n has exactly
\* 2 * node_capacity slots, so that both slots of every level 0..level exist
LinksAllocated(n) ==
  /\ n.level + 1 <= n.node_capacity
  /\ DOMAIN n.nodes = 0 .. (2 * n.node_capacity - 1)
  /\ \A l \in 0 .. n.level : {2 * l, 2 * l + 1} \subseteq DOMAIN n.nodes

\* C35: link-array capacity: every node, sentinels included, has
\* level + 1 <= node_capacity in every reachable state, so every link of a
\* level 0..level lies inside the array of 2 * node_capacity pointers; for
\* every node of every reachable state increaseLevel keeps that, leaves both
\* slots of the new level null and keeps the links of the levels below, and
\* decreaseLevel keeps it and keeps every link.
C35_LinkArrayCapacity ==
  \A a \in DOMAIN heap :
    /\ LinksAllocated(heap[a])
    /\ \A n \in {Node_increaseLevel(heap[a])} :
         /\ n.level = heap[a].level + 1
         /\ LinksAllocated(n)
         /\ n.nodes[2 * n.level] = NIL
         /\ n.nodes[2 * n.level + 1] = NIL
         /\ \A i \in 0 .. (2 * n.level - 1) : n.nodes[i] = heap[a].nodes[i]
    /\ heap[a].level >= 1 =>
         \A n \in {Node_decreaseLevel(heap[a])} :
           /\ n.level = heap[a].level - 1
           /\ LinksAllocated(n)
           /\ n.nodes = heap[a].nodes

\* a block created with one or two levels was promoted to level 2, which
\* doubled its link array to 4 levels, the sentinels have reached level 2 with
\* an array doubled twice, and a block of one level keeps its array of one
C35_Witness ==
  /\ level = 2
  /\ heap[sentryHead].node_capacity = 4
  /\ heap[sentryTail].node_capacity = 4
  /\ \E a \in Blocks : heap[a].level = 2 /\ heap[a].node_capacity = 4
  /\ \E a \in Blocks : heap[a].level = 0 /\ heap[a].node_capacity = 1

====
